---- MODULE Spec2Model ----
(***************************************************************************)
(* A model of package algorithms (src/algorithms/algorithms.go).           *)
(*                                                                         *)
(* A Go slice is a function over 0 .. n-1, so that every index expression  *)
(* of the source is kept as written.  An element is a record               *)
(* [key |-> k, tag |-> t]: key is the value the code compares or indexes   *)
(* by, tag records the position the element had in the input and is never *)
(* read by the code; it only makes the order of equal keys observable.     *)
(* A run of a function is carried in a record [vec, panic]: panic is set   *)
(* by the run-time checks of Go (index out of range, division by zero,     *)
(* makeslice: len out of range), after which the function does nothing     *)
(* more.                                                                   *)
(***************************************************************************)
EXTENDS Integers, Sequences, FiniteSets, TLC

VARIABLES
    dom,      \* the element type of the call: "ordered", "uint", "string", "float64"
    input,    \* the slice as it was handed to the function
    vec,      \* the slice now
    fn,       \* the function that ran, "none" before the call
    args,     \* the arguments of the call besides vec
    ret,      \* the value returned (partition, medianOfThree), -1 otherwise
    panic,    \* the call ended in a run-time panic
    passes    \* the digit weights of the passes the radix loop made, in turn

vars == <<dom, input, vec, fn, args, ret, panic, passes>>

-----------------------------------------------------------------------------
(* Bounds of the model *)

MaxLen == 4        \* longest slice of ordered elements
MaxKey == 2        \* ordered keys are 0 .. MaxKey
UintBits == 8      \* width of uint and int, in place of the 32 or 64 bits of Go
MaxUintLen == 3    \* longest slice of uint
MaxStrs == 2       \* longest slice of strings
MaxStrLen == 2     \* longest string
MaxFloatLen == 3   \* longest slice of float64
MaxFloatVal == 3   \* the small float64 values are 0 .. MaxFloatVal

-----------------------------------------------------------------------------
(* Slices *)

len(v) == Cardinality(DOMAIN v)

inb(v, i) == i \in DOMAIN v

Elem(k, t) == [key |-> k, tag |-> t]

\* the slice holding the keys of the sequence ks, tagged by position
Slice(ks) == [i \in 0 .. Len(ks) - 1 |-> Elem(ks[i + 1], i)]

Start(v) == [vec |-> v, panic |-> FALSE]

Panic(st) == [st EXCEPT !.panic = TRUE]

\* vec[i], vec[j] = vec[j], vec[i]
swap_lost(st, i, j) ==
    IF st.panic THEN st
    ELSE IF ~(inb(st.vec, i) /\ inb(st.vec, j)) THEN Panic(st)
    ELSE [st EXCEPT !.vec = [st.vec EXCEPT ![i] = st.vec[j]]]

swap(st, i, j) ==
    IF st.panic THEN st
    ELSE IF ~(inb(st.vec, i) /\ inb(st.vec, j)) THEN Panic(st)
    ELSE [st EXCEPT !.vec = [st.vec EXCEPT ![i] = st.vec[j], ![j] = st.vec[i]]]

-----------------------------------------------------------------------------
(* Elementary comparison sorts *)

RECURSIVE SimpleSortInner(_, _, _)
SimpleSortInner(st, i, j) ==
    IF st.panic \/ ~(j < len(st.vec)) THEN st
    ELSE IF ~(inb(st.vec, i) /\ inb(st.vec, j)) THEN Panic(st)
    ELSE SimpleSortInner(IF st.vec[j].key < st.vec[i].key THEN swap(st, i, j) ELSE st,
                         i, j + 1)

RECURSIVE SimpleSortOuter(_, _)
SimpleSortOuter(st, i) ==
    IF st.panic \/ ~(i < len(st.vec) - 1) THEN st
    ELSE SimpleSortOuter(SimpleSortInner(st, i, i + 1), i + 1)

SimpleSort(v) == SimpleSortOuter(Start(v), 0)

\* the inner loop of SelectionSort: the run and minIndex
RECURSIVE SelectionMin(_, _, _)
SelectionMin(st, minIndex, j) ==
    IF st.panic \/ ~(j < len(st.vec)) THEN [st |-> st, minIndex |-> minIndex]
    ELSE IF ~(inb(st.vec, j) /\ inb(st.vec, minIndex))
         THEN [st |-> Panic(st), minIndex |-> minIndex]
    ELSE SelectionMin(st,
                      IF st.vec[j].key < st.vec[minIndex].key THEN j ELSE minIndex,
                      j + 1)

RECURSIVE SelectionSortOuter(_, _)
SelectionSortOuter(st, i) ==
    IF st.panic \/ ~(i < len(st.vec) - 1) THEN st
    ELSE LET m == SelectionMin(st, i, i + 1)
         IN  SelectionSortOuter(IF m.minIndex # i THEN swap(m.st, i, m.minIndex)
                                                  ELSE m.st,
                                i + 1)

SelectionSort(v) == SelectionSortOuter(Start(v), 0)

\* vec[j] > vec[j+1], the test of BubbleSort
bubbleOutOfOrder(a, b) == a.key > b.key

\* the inner loop of BubbleSort: the run and swapped
RECURSIVE BubbleSortInner(_, _, _, _)
BubbleSortInner(st, swapped, i, j) ==
    IF st.panic \/ ~(j < len(st.vec) - 1 - i) THEN [st |-> st, swapped |-> swapped]
    ELSE IF ~(inb(st.vec, j) /\ inb(st.vec, j + 1))
         THEN [st |-> Panic(st), swapped |-> swapped]
    ELSE IF bubbleOutOfOrder(st.vec[j], st.vec[j + 1])
         THEN BubbleSortInner(swap(st, j, j + 1), TRUE, i, j + 1)
         ELSE BubbleSortInner(st, swapped, i, j + 1)

RECURSIVE BubbleSortOuter(_, _)
BubbleSortOuter(st, i) ==
    IF st.panic \/ ~(i < len(st.vec) - 1) THEN st
    ELSE LET r == BubbleSortInner(st, FALSE, i, 0)
         IN  IF ~r.swapped THEN r.st ELSE BubbleSortOuter(r.st, i + 1)

BubbleSort(v) == BubbleSortOuter(Start(v), 0)

RECURSIVE InsertionSortInner(_, _)
InsertionSortInner(st, j) ==
    IF st.panic \/ ~(j > 0) THEN st
    ELSE IF ~(inb(st.vec, j) /\ inb(st.vec, j - 1)) THEN Panic(st)
    ELSE IF ~(st.vec[j].key < st.vec[j - 1].key) THEN st
    ELSE InsertionSortInner(swap(st, j, j - 1), j - 1)

RECURSIVE InsertionSortOuter(_, _)
InsertionSortOuter(st, i) ==
    IF st.panic \/ ~(i < len(st.vec)) THEN st
    ELSE InsertionSortOuter(InsertionSortInner(st, i), i + 1)

InsertionSort(v) == InsertionSortOuter(Start(v), 1)

-----------------------------------------------------------------------------
(* MergeSort: the run also carries tmp, the buffer shared by every merge *)

\* the zero value make() fills a new slice with
Zero == Elem(0, -1)

make(n) == [i \in 0 .. n - 1 |-> Zero]

\* vec[i] <= vec[j]: the head of the left run is taken
mergeTakeLeft_strict(a, b) == a.key < b.key

mergeTakeLeft(a, b) == a.key <= b.key

\* the three filling loops of merge (lines 104-125), one element per step
RECURSIVE mergeFill(_, _, _, _, _, _)
mergeFill(st, i, j, k, mid, end) ==
    IF st.panic THEN st
    ELSE IF i <= mid /\ j <= end
         THEN IF ~(inb(st.vec, i) /\ inb(st.vec, j) /\ inb(st.tmp, k)) THEN Panic(st)
              ELSE IF mergeTakeLeft(st.vec[i], st.vec[j])
                   THEN mergeFill([st EXCEPT !.tmp[k] = st.vec[i]], i + 1, j, k + 1, mid, end)
                   ELSE mergeFill([st EXCEPT !.tmp[k] = st.vec[j]], i, j + 1, k + 1, mid, end)
    ELSE IF i <= mid
         THEN IF ~(inb(st.vec, i) /\ inb(st.tmp, k)) THEN Panic(st)
              ELSE mergeFill([st EXCEPT !.tmp[k] = st.vec[i]], i + 1, j, k + 1, mid, end)
    ELSE IF j <= end
         THEN IF ~(inb(st.vec, j) /\ inb(st.tmp, k)) THEN Panic(st)
              ELSE mergeFill([st EXCEPT !.tmp[k] = st.vec[j]], i, j + 1, k + 1, mid, end)
    ELSE st

\* the copy back (lines 127-129)
RECURSIVE mergeCopy(_, _, _)
mergeCopy(st, i, end) ==
    IF st.panic \/ ~(i <= end) THEN st
    ELSE IF ~(inb(st.vec, i) /\ inb(st.tmp, i)) THEN Panic(st)
    ELSE mergeCopy([st EXCEPT !.vec[i] = st.tmp[i]], i + 1, end)

merge(st, start, mid, end) ==
    mergeCopy(mergeFill(st, start, mid + 1, start, mid, end), start, end)

RECURSIVE mergeSortHelper(_, _, _)
mergeSortHelper(st, start, end) ==
    IF st.panic \/ start >= end THEN st
    ELSE LET mid == start + (end - start) \div 2
         IN  merge(mergeSortHelper(mergeSortHelper(st, start, mid), mid + 1, end),
                   start, mid, end)

MergeSort(v) ==
    IF len(v) <= 1 THEN Start(v)
    ELSE LET r == mergeSortHelper([vec |-> v, tmp |-> make(len(v)), panic |-> FALSE],
                                  0, len(v) - 1)
         IN  [vec |-> r.vec, panic |-> r.panic]

-----------------------------------------------------------------------------
(* QuickSort *)

\* the position returned, and whether the reads were within the slice
medianOfThree(v, i, j, k) ==
    IF ~(inb(v, i) /\ inb(v, j) /\ inb(v, k)) THEN [ok |-> FALSE, index |-> -1]
    ELSE IF (v[i].key > v[j].key) # (v[i].key > v[k].key) THEN [ok |-> TRUE, index |-> i]
    ELSE IF (v[j].key > v[i].key) # (v[j].key > v[k].key) THEN [ok |-> TRUE, index |-> j]
    ELSE [ok |-> TRUE, index |-> k]

\* vec[j] <= pivot: the element joins the left region
atOrBelowPivot_lt(a, pivot) == a.key < pivot.key

atOrBelowPivot(a, pivot) == a.key <= pivot.key

\* the scan of partition (lines 161-166): the run and the boundary i
RECURSIVE partitionLoop(_, _, _, _, _)
partitionLoop(st, pivot, i, j, end) ==
    IF st.panic \/ ~(j < end) THEN [st |-> st, i |-> i]
    ELSE IF ~inb(st.vec, j) THEN [st |-> Panic(st), i |-> i]
    ELSE IF atOrBelowPivot(st.vec[j], pivot)
         THEN partitionLoop(swap(st, i + 1, j), pivot, i + 1, j + 1, end)
         ELSE partitionLoop(st, pivot, i, j + 1, end)

\* the run and the index returned (-1 after a panic)
partition(st, start, end) ==
    LET mid == start + (end - start) \div 2
        m   == medianOfThree(st.vec, start, mid, end)
    IN  IF st.panic \/ ~m.ok THEN [st |-> Panic(st), index |-> -1]
        ELSE LET s1 == swap(st, m.index, end)
                 r  == partitionLoop(s1, s1.vec[end], start - 1, start, end)
                 s2 == swap(r.st, r.i + 1, end)
             IN  [st |-> s2, index |-> IF s2.panic THEN -1 ELSE r.i + 1]

RECURSIVE quickSortHelper(_, _, _)
quickSortHelper(st, start, end) ==
    IF st.panic \/ start >= end THEN st
    ELSE LET p == partition(st, start, end)
         IN  quickSortHelper(quickSortHelper(p.st, start, p.index - 1), p.index + 1, end)

QuickSort(v) ==
    IF len(v) <= 1 THEN Start(v)
    ELSE quickSortHelper(Start(v), 0, len(v) - 1)

-----------------------------------------------------------------------------
(* HeapSort *)

RECURSIVE heapify(_, _, _)
heapify(st, i, n) ==
    IF st.panic THEN st
    ELSE LET left  == 2 * i + 1
             right == 2 * i + 2
         IN  IF (left < n /\ ~(inb(st.vec, left) /\ inb(st.vec, i))) THEN Panic(st)
             ELSE LET l1 == IF left < n /\ st.vec[left].key > st.vec[i].key
                            THEN left ELSE i
                  IN  IF right < n /\ ~(inb(st.vec, right) /\ inb(st.vec, l1)) THEN Panic(st)
                      ELSE LET largest == IF right < n /\ st.vec[right].key > st.vec[l1].key
                                          THEN right ELSE l1
                           IN  IF largest # i
                               THEN heapify(swap(st, i, largest), largest, n)
                               ELSE st

RECURSIVE buildHeapLoop(_, _, _)
buildHeapLoop(st, i, n) ==
    IF st.panic \/ ~(i >= 0) THEN st
    ELSE buildHeapLoop(heapify(st, i, n), i - 1, n)

buildHeap(st) ==
    LET n == len(st.vec) IN buildHeapLoop(st, n \div 2 - 1, n)

RECURSIVE HeapSortLoop(_, _)
HeapSortLoop(st, i) ==
    IF st.panic \/ ~(i >= 0) THEN st
    ELSE HeapSortLoop(heapify(swap(st, 0, i), 0, i), i - 1)

\* the extraction loop started one position too far
HeapSort_from_n(v) == HeapSortLoop(buildHeap(Start(v)), len(v))

HeapSort(v) == HeapSortLoop(buildHeap(Start(v)), len(v) - 1)

-----------------------------------------------------------------------------
(* The unsigned integer sorts.  uint and int have UintBits bits; sums and  *)
(* products of uint wrap modulo 2^UintBits.                                *)

UintMod == 2 ^ UintBits

MaxUint == UintMod - 1

MaxInt == 2 ^ (UintBits - 1) - 1

\* slices.Max on a non-empty slice
SliceMax(v) == CHOOSE m \in {v[i].key : i \in DOMAIN v} : \A i \in DOMAIN v : v[i].key <= m

\* make([]uint, n): the callers panic first ("makeslice: len out of range")
\* when the uint n is no int; the allocation limit of the run time, lower
\* still, is not modelled
makeCounts(n) == [i \in 0 .. n - 1 |-> 0]

\* for _, val := range vec { counts[val]++ }, the run carrying counts
RECURSIVE countValues(_, _)
countValues(st, i) ==
    IF st.panic \/ ~(i < len(st.vec)) THEN st
    ELSE IF ~inb(st.counts, st.vec[i].key) THEN Panic(st)
    ELSE countValues([st EXCEPT !.counts[st.vec[i].key] = (@ + 1) % UintMod], i + 1)

\* for i := 1; i < len(counts); i++ { counts[i] += counts[i-1] }
RECURSIVE prefixSums(_, _)
prefixSums(st, i) ==
    IF st.panic \/ ~(i < len(st.counts)) THEN st
    ELSE prefixSums([st EXCEPT !.counts[i] = (@ + st.counts[i - 1]) % UintMod], i + 1)

\* the placement loop of GeneralCountingSort (lines 240-243)
RECURSIVE placeByValue(_, _)
placeByValue(st, i) ==
    IF st.panic \/ ~(i >= 0) THEN st
    ELSE IF ~inb(st.counts, st.vec[i].key) THEN Panic(st)
    ELSE LET val == st.vec[i].key
             at  == (st.counts[val] - 1) % UintMod
         IN  IF ~inb(st.sorted, at) THEN Panic(st)
             ELSE placeByValue([st EXCEPT !.sorted[at] = st.vec[i],
                                          !.counts[val] = (@ - 1) % UintMod],
                               i - 1)

GeneralCountingSort(v) ==
    IF len(v) <= 1 THEN Start(v)
    ELSE LET max == SliceMax(v)
             n   == (max + 1) % UintMod
         IN  IF n > MaxInt THEN Panic(Start(v))
             ELSE LET r == placeByValue(
                               prefixSums(
                                   countValues([vec |-> v, counts |-> makeCounts(n),
                                                sorted |-> make(len(v)),
                                                panic |-> FALSE], 0),
                                   1),
                               len(v) - 1)
                  IN  [vec |-> IF r.panic THEN r.vec ELSE r.sorted, panic |-> r.panic]

\* a value the code writes from a counter, copied from no element of the input
NoTag == -1

\* for counts[i] > 0 { vec[index] = i; counts[i]--; index++ }
RECURSIVE writeRun(_, _, _)
writeRun(st, i, index) ==
    IF st.panic \/ ~(st.counts[i] > 0) THEN [st |-> st, index |-> index]
    ELSE IF ~inb(st.vec, index) THEN [st |-> Panic(st), index |-> index]
    ELSE writeRun([st EXCEPT !.vec[index] = Elem(i, NoTag),
                             !.counts[i] = (@ - 1) % UintMod],
                  i, index + 1)

\* for i = 0; i < uint(len(counts)); i++
RECURSIVE writeValues(_, _, _)
writeValues(st, i, index) ==
    IF st.panic \/ ~(i < len(st.counts)) THEN st
    ELSE LET r == writeRun(st, i, index)
         IN  writeValues(r.st, i + 1, r.index)

IntegerCountingSort(v) ==
    IF len(v) <= 1 THEN Start(v)
    ELSE LET max == SliceMax(v)
             n   == (max + 1) % UintMod
         IN  IF n > MaxInt THEN Panic(Start(v))
             ELSE LET r == writeValues(countValues([vec |-> v, counts |-> makeCounts(n),
                                                    panic |-> FALSE], 0),
                                       0, 0)
                  IN  [vec |-> r.vec, panic |-> r.panic]

-----------------------------------------------------------------------------
(* Radix sorts of uint *)

NumDigits == 10

\* (vec[i] / exp) % NumDigits, for exp # 0
intBucket(e, exp) == (e.key \div exp) % NumDigits

\* lines 289-292, the run carrying counts and output
RECURSIVE countDigits(_, _, _)
countDigits(st, exp, i) ==
    IF st.panic \/ ~(i < len(st.vec)) THEN st
    ELSE IF exp = 0 THEN Panic(st)
    ELSE countDigits([st EXCEPT !.counts[intBucket(st.vec[i], exp)] = (@ + 1) % UintMod],
                     exp, i + 1)

\* lines 294-296
RECURSIVE prefixDigits(_, _)
prefixDigits(st, i) ==
    IF st.panic \/ ~(i < NumDigits) THEN st
    ELSE prefixDigits([st EXCEPT !.counts[i] = (@ + st.counts[i - 1]) % UintMod], i + 1)

\* lines 298-302
RECURSIVE placeByDigit(_, _, _)
placeByDigit(st, exp, i) ==
    IF st.panic \/ ~(i >= 0) THEN st
    ELSE IF exp = 0 THEN Panic(st)
    ELSE LET bucket == intBucket(st.vec[i], exp)
             at     == (st.counts[bucket] - 1) % UintMod
         IN  IF ~inb(st.output, at) THEN Panic(st)
             ELSE placeByDigit([st EXCEPT !.output[at] = st.vec[i],
                                          !.counts[bucket] = (@ - 1) % UintMod],
                               exp, i - 1)

radixIntCountSort(st, exp) ==
    IF st.panic THEN st
    ELSE LET r == placeByDigit(
                      prefixDigits(
                          countDigits([vec |-> st.vec, counts |-> makeCounts(NumDigits),
                                       output |-> make(len(st.vec)), panic |-> FALSE],
                                      exp, 0),
                          1),
                      exp, len(st.vec) - 1)
         IN  [vec |-> IF r.panic THEN r.vec ELSE r.output, panic |-> r.panic]

\* exp *= 10 in a uint
nextWeight(exp) == (exp * 10) % UintMod

\* for (max / exp) > 0 { ...; exp *= 10 }: the run and the weights of the passes made
RECURSIVE IntRadixLoop(_, _, _, _)
IntRadixLoop(st, max, exp, done) ==
    IF st.panic THEN [st |-> st, passes |-> done]
    ELSE IF exp = 0 THEN [st |-> Panic(st), passes |-> done]
    ELSE IF ~((max \div exp) > 0) THEN [st |-> st, passes |-> done]
    ELSE IntRadixLoop(radixIntCountSort(st, exp), max, nextWeight(exp), Append(done, exp))

IntRadixSort(v) ==
    IF len(v) <= 1 THEN [st |-> Start(v), passes |-> << >>]
    ELSE IntRadixLoop(Start(v), SliceMax(v), 1, << >>)

\* lines 317-320: every element appended to the collection of its digit
RECURSIVE distribute(_, _, _, _)
distribute(v, radixArray, divisor, i) ==
    IF ~(i < len(v)) THEN radixArray
    ELSE LET radixIndex == intBucket(v[i], divisor)
         IN  distribute(v, [radixArray EXCEPT ![radixIndex] = Append(@, v[i])],
                        divisor, i + 1)

\* lines 322-329: the collections written back in the order of the digits
RECURSIVE collect(_, _, _, _, _)
collect(st, radixArray, i, j, k) ==
    IF st.panic \/ ~(i < NumDigits) THEN st
    ELSE IF ~(j <= Len(radixArray[i])) THEN collect(st, radixArray, i + 1, 1, k)
    ELSE IF ~inb(st.vec, k) THEN Panic(st)
    ELSE collect([st EXCEPT !.vec[k] = radixArray[i][j]], radixArray, i, j + 1, k + 1)

\* one pass of LessEfficientRadixSort, divisor # 0
lessEfficientPass(st, divisor) ==
    collect(st,
            distribute(st.vec, [d \in 0 .. NumDigits - 1 |-> << >>], divisor, 0),
            0, 1, 0)

RECURSIVE LessEfficientLoop(_, _, _, _)
LessEfficientLoop(st, max, divisor, done) ==
    IF st.panic THEN [st |-> st, passes |-> done]
    ELSE IF divisor = 0 THEN [st |-> Panic(st), passes |-> done]
    ELSE IF ~((max \div divisor) > 0) THEN [st |-> st, passes |-> done]
    ELSE LessEfficientLoop(lessEfficientPass(st, divisor), max, nextWeight(divisor),
                           Append(done, divisor))

LessEfficientRadixSort(v) ==
    IF len(v) <= 1 THEN [st |-> Start(v), passes |-> << >>]
    ELSE LessEfficientLoop(Start(v), SliceMax(v), 1, << >>)

-----------------------------------------------------------------------------
(* StringRadixSort.  A string is a function from 0 .. n-1 to bytes. *)

\* the values of a uint8
ByteMod == 256

\* len(counts) in radixStringCountSort
NumCounts == 129

\* bucket = uint8(vec[i][curIdx]) + 1 without the wrap of uint8
stringBucket_nowrap(s, curIdx) ==
    IF curIdx < len(s) THEN s[curIdx] + 1 ELSE 0

\* lines 359-363: bucket is a uint8
stringBucket(s, curIdx) ==
    IF curIdx < len(s) THEN (s[curIdx] + 1) % ByteMod ELSE 0

\* lines 358-365
RECURSIVE countBytes(_, _, _)
countBytes(st, curIdx, i) ==
    IF st.panic \/ ~(i < len(st.vec)) THEN st
    ELSE LET bucket == stringBucket(st.vec[i].key, curIdx)
         IN  IF ~inb(st.counts, bucket) THEN Panic(st)
             ELSE countBytes([st EXCEPT !.counts[bucket] = (@ + 1) % UintMod],
                             curIdx, i + 1)

\* lines 371-379
RECURSIVE placeByByte(_, _, _)
placeByByte(st, curIdx, i) ==
    IF st.panic \/ ~(i >= 0) THEN st
    ELSE LET bucket == stringBucket(st.vec[i].key, curIdx)
         IN  IF ~inb(st.counts, bucket) THEN Panic(st)
             ELSE LET at == (st.counts[bucket] - 1) % UintMod
                  IN  IF ~inb(st.output, at) THEN Panic(st)
                      ELSE placeByByte([st EXCEPT !.output[at] = st.vec[i],
                                                  !.counts[bucket] = (@ - 1) % UintMod],
                                       curIdx, i - 1)

radixStringCountSort(st, curIdx) ==
    IF st.panic THEN st
    ELSE LET r == placeByByte(
                      prefixSums(
                          countBytes([vec |-> st.vec, counts |-> makeCounts(NumCounts),
                                      output |-> make(len(st.vec)), panic |-> FALSE],
                                     curIdx, 0),
                          1),
                      curIdx, len(st.vec) - 1)
         IN  [vec |-> IF r.panic THEN r.vec ELSE r.output, panic |-> r.panic]

\* lines 341-346
StringMaxLen(v) ==
    CHOOSE m \in {len(v[i].key) : i \in DOMAIN v} : \A i \in DOMAIN v : len(v[i].key) <= m

\* for i := maxLen - 1; i >= 0; i--
RECURSIVE StringRadixLoop(_, _)
StringRadixLoop(st, i) ==
    IF st.panic \/ ~(i >= 0) THEN st
    ELSE StringRadixLoop(radixStringCountSort(st, i), i - 1)

\* the passes started one position left of the last
StringRadixSort_short(v) ==
    IF len(v) <= 1 THEN Start(v)
    ELSE StringRadixLoop(Start(v), StringMaxLen(v) - 2)

StringRadixSort(v) ==
    IF len(v) <= 1 THEN Start(v)
    ELSE StringRadixLoop(Start(v), StringMaxLen(v) - 1)

-----------------------------------------------------------------------------
(* BucketSort.  The float64 values of the model are integers, on which     *)
(* val - min and max - min are exact; on the values the model draws, the   *)
(* float64 quotients (max-min)/Sqrt(n) and (val-min)/(max-min)*(nb-1)      *)
(* round to numbers with the same integer part as the exact quotients, so  *)
(* the integer parts are computed exactly.                                 *)

MinInt == -MaxInt - 1

\* the result of an int sum, wrapped to the width of int
wrapInt(x) == ((x + MaxInt + 1) % UintMod) - MaxInt - 1

SliceMin(v) == CHOOSE m \in {v[i].key : i \in DOMAIN v} : \A i \in DOMAIN v : m <= v[i].key

\* the integer part of d / math.Sqrt(float64(n)), d >= 0 and n >= 1
FloorDivSqrt(d, n) ==
    CHOOSE k \in 0 .. d : k * k * n <= d * d /\ (k + 1) * (k + 1) * n > d * d

\* what int(x) may give for a float64 no int holds: the Go specification
\* leaves the value to the implementation (the smallest int where the
\* conversion instruction answers "indefinite", the largest where it saturates)
IntOfFloatOutcomes == {MinInt, MaxInt}

\* int(x) for a float64 x >= 0 of integer part q; conv is the value the
\* implementation gives when no int holds x
intOfFloat(q, conv) == IF q <= MaxInt THEN q ELSE conv

\* line 410
numBucketsOf(min, max, n, conv) == wrapInt(intOfFloat(FloorDivSqrt(max - min, n), conv) + 1)

\* line 414, for max > min and numBuckets >= 1
bucketIndex(val, min, max, numBuckets) ==
    ((val - min) * (numBuckets - 1)) \div (max - min)

\* append(s, e) on a slice
append(s, e) == [i \in 0 .. len(s) |-> IF i < len(s) THEN s[i] ELSE e]

\* lines 413-416, the run carrying buckets and output
RECURSIVE fillBuckets(_, _, _, _, _)
fillBuckets(st, min, max, numBuckets, i) ==
    IF st.panic \/ ~(i < len(st.vec)) THEN st
    ELSE LET index == bucketIndex(st.vec[i].key, min, max, numBuckets)
         IN  IF ~inb(st.buckets, index) THEN Panic(st)
             ELSE fillBuckets([st EXCEPT !.buckets[index] = append(@, st.vec[i])],
                              min, max, numBuckets, i + 1)

\* for _, val := range buckets[i] { output[k] = val; k++ }
RECURSIVE emitBucket(_, _, _, _)
emitBucket(st, b, j, k) ==
    IF st.panic \/ ~(j < len(b)) THEN st
    ELSE IF ~inb(st.output, k) THEN Panic(st)
    ELSE emitBucket([st EXCEPT !.output[k] = b[j]], b, j + 1, k + 1)

\* lines 421-427
RECURSIVE emitBuckets(_, _, _)
emitBuckets(st, i, k) ==
    IF st.panic \/ ~(i < len(st.buckets)) THEN st
    ELSE LET q == QuickSort(st.buckets[i])
         IN  IF q.panic THEN Panic(st)
             ELSE emitBuckets(emitBucket(st, q.vec, 0, k), i + 1, k + len(q.vec))

BucketSort(v, conv) ==
    IF len(v) <= 1 THEN Start(v)
    ELSE LET min == SliceMin(v)
             max == SliceMax(v)
         IN  IF max = min THEN QuickSort(v)
             ELSE LET numBuckets == numBucketsOf(min, max, len(v), conv)
                  IN  IF numBuckets < 0 THEN Panic(Start(v))
                      ELSE LET r == emitBuckets(
                                        fillBuckets([vec |-> v,
                                                     buckets |-> [b \in 0 .. numBuckets - 1
                                                                      |-> << >>],
                                                     output |-> make(len(v)),
                                                     panic |-> FALSE],
                                                    min, max, numBuckets, 0),
                                        0, 0)
                           IN  [vec |-> IF r.panic THEN r.vec ELSE r.output,
                                panic |-> r.panic]

-----------------------------------------------------------------------------
(* The calls *)

OrderedInputs ==
    { Slice(ks) : ks \in UNION { [1 .. n -> 0 .. MaxKey] : n \in 0 .. MaxLen } }

\* one, two and three decimal digits, and the largest uint
UintVals == {0, 1, 10, 11, 101, MaxUint}

UintInputs ==
    { Slice(ks) : ks \in UNION { [1 .. n -> UintVals] : n \in 0 .. MaxUintLen } }

\* the string of the bytes bs
StrOf(bs) == [i \in 0 .. Len(bs) - 1 |-> bs[i + 1]]

\* the least and the greatest ASCII byte
AsciiBytes == {0, 127}

\* bytes that are not ASCII
HighBytes == {128, 254, 255}

AsciiStrings ==
    { StrOf(bs) : bs \in UNION { [1 .. n -> AsciiBytes] : n \in 0 .. MaxStrLen } }

HighStrings == { StrOf(<<b>>) : b \in HighBytes }

\* slices of ASCII strings, and the slices of at most two strings some of
\* which hold a byte >= 128, which the contract of StringRadixSort excludes
StringInputs ==
    { Slice(ks) : ks \in UNION { [1 .. n -> AsciiStrings] : n \in 0 .. MaxStrs } }
    \cup { Slice(ks) : ks \in UNION { [1 .. n -> AsciiStrings \cup HighStrings]
                                        : n \in 1 .. 2 } }

\* a float64 so far from the small ones that, on a short slice,
\* (max-min)/Sqrt(n) is beyond the largest int
BigFloat == 2 * (MaxInt + 1)

FloatVals == (0 .. MaxFloatVal) \cup {BigFloat}

FloatInputs ==
    { Slice(ks) : ks \in UNION { [1 .. n -> FloatVals] : n \in 0 .. MaxFloatLen } }

Inputs(d) ==
    CASE d = "ordered" -> OrderedInputs
      [] d = "uint"    -> UintInputs
      [] d = "string"  -> StringInputs
      [] d = "float64" -> FloatInputs

Doms == {"ordered", "uint", "string", "float64"}

Init ==
    /\ dom \in Doms
    /\ input \in Inputs(dom)
    /\ vec = input
    /\ fn = "none"
    /\ args = << >>
    /\ ret = -1
    /\ panic = FALSE
    /\ passes = << >>

\* function name ran to its end (or to a panic), leaving the run st
Return(name, st, a, r, np) ==
    /\ fn = "none"
    /\ fn' = name
    /\ vec' = st.vec
    /\ panic' = st.panic
    /\ args' = a
    /\ ret' = r
    /\ passes' = np
    /\ UNCHANGED <<dom, input>>

CallSimpleSort == dom = "ordered" /\ Return("SimpleSort", SimpleSort(vec), << >>, -1, << >>)

CallSelectionSort ==
    dom = "ordered" /\ Return("SelectionSort", SelectionSort(vec), << >>, -1, << >>)

CallBubbleSort == dom = "ordered" /\ Return("BubbleSort", BubbleSort(vec), << >>, -1, << >>)

CallInsertionSort ==
    dom = "ordered" /\ Return("InsertionSort", InsertionSort(vec), << >>, -1, << >>)

CallMergeSort == dom = "ordered" /\ Return("MergeSort", MergeSort(vec), << >>, -1, << >>)

CallQuickSort == dom = "ordered" /\ Return("QuickSort", QuickSort(vec), << >>, -1, << >>)

CallHeapSort == dom = "ordered" /\ Return("HeapSort", HeapSort(vec), << >>, -1, << >>)

\* partition as quickSortHelper calls it: start < end, both within the slice
CallPartition ==
    /\ dom = "ordered"
    /\ \E start \in DOMAIN vec, end \in DOMAIN vec :
          /\ start < end
          /\ LET p == partition(Start(vec), start, end)
             IN  Return("partition", p.st, <<start, end>>, p.index, << >>)

CallMedianOfThree ==
    /\ dom = "ordered"
    /\ \E i \in DOMAIN vec, j \in DOMAIN vec, k \in DOMAIN vec :
          LET m == medianOfThree(vec, i, j, k)
          IN  Return("medianOfThree", [vec |-> vec, panic |-> ~m.ok], <<i, j, k>>,
                     m.index, << >>)

CallGeneralCountingSort ==
    dom = "uint" /\ Return("GeneralCountingSort", GeneralCountingSort(vec), << >>, -1, << >>)

CallIntegerCountingSort ==
    dom = "uint" /\ Return("IntegerCountingSort", IntegerCountingSort(vec), << >>, -1, << >>)

CallIntRadixSort ==
    /\ dom = "uint"
    /\ LET r == IntRadixSort(vec)
       IN  Return("IntRadixSort", r.st, << >>, -1, r.passes)

CallLessEfficientRadixSort ==
    /\ dom = "uint"
    /\ LET r == LessEfficientRadixSort(vec)
       IN  Return("LessEfficientRadixSort", r.st, << >>, -1, r.passes)

\* one digit pass, on a weight IntRadixSort passes
CallRadixIntCountSort ==
    /\ dom = "uint"
    /\ \E exp \in {1, 10, 100} :
          Return("radixIntCountSort", radixIntCountSort(Start(vec), exp), <<exp>>, -1,
                 << >>)

CallStringRadixSort ==
    dom = "string" /\ Return("StringRadixSort", StringRadixSort(vec), << >>, -1, << >>)

\* one byte pass, on a position StringRadixSort passes
CallRadixStringCountSort ==
    /\ dom = "string"
    /\ \E curIdx \in 0 .. MaxStrLen - 1 :
          Return("radixStringCountSort", radixStringCountSort(Start(vec), curIdx),
                 <<curIdx>>, -1, << >>)

CallBucketSort ==
    /\ dom = "float64"
    /\ \E conv \in IntOfFloatOutcomes :
          Return("BucketSort", BucketSort(vec, conv), << >>, -1, << >>)

Next ==
    \/ CallSimpleSort
    \/ CallSelectionSort
    \/ CallBubbleSort
    \/ CallInsertionSort
    \/ CallMergeSort
    \/ CallQuickSort
    \/ CallHeapSort
    \/ CallPartition
    \/ CallMedianOfThree
    \/ CallGeneralCountingSort
    \/ CallIntegerCountingSort
    \/ CallIntRadixSort
    \/ CallLessEfficientRadixSort
    \/ CallRadixIntCountSort
    \/ CallStringRadixSort
    \/ CallRadixStringCountSort
    \/ CallBucketSort

Spec == Init /\ [][Next]_vars

-----------------------------------------------------------------------------
(* What the claims speak of *)

\* b holds the elements of a, each as often
Rearranged(a, b) ==
    /\ len(a) = len(b)
    /\ \A i \in DOMAIN a :
          Cardinality({j \in DOMAIN b : b[j] = a[i]})
              = Cardinality({j \in DOMAIN a : a[j] = a[i]})

\* b holds the keys of a, each as often
SameKeys(a, b) ==
    /\ len(a) = len(b)
    /\ \A i \in DOMAIN a :
          Cardinality({j \in DOMAIN b : b[j].key = a[i].key})
              = Cardinality({j \in DOMAIN a : a[j].key = a[i].key})

Ascending(v) == \A i \in DOMAIN v : (i + 1) \in DOMAIN v => v[i].key <= v[i + 1].key

\* elements of equal key stand in the order of their input positions
KeepsEqualKeysInOrder(v) ==
    \A i \in DOMAIN v, j \in DOMAIN v :
        (i < j /\ v[i].key = v[j].key) => v[i].tag < v[j].tag

ComparisonSorts ==
    {"SimpleSort", "SelectionSort", "BubbleSort", "InsertionSort",
     "MergeSort", "QuickSort", "HeapSort"}

\* C1: each of the seven comparison sorts returns with vec a permutation of
\* its input in which every adjacent pair is in order.
C1_SortedPermutation ==
    fn \in ComparisonSorts =>
        /\ ~panic
        /\ Rearranged(input, vec)
        /\ Ascending(vec)

C1_Witness ==
    /\ fn = "HeapSort"
    /\ len(input) = MaxLen
    /\ ~Ascending(input)
    /\ \E i \in DOMAIN input, j \in DOMAIN input : i # j /\ input[i].key = input[j].key

\* the middle one of three values taken in sorted order
Median(a, b, c) ==
    LET hi == CHOOSE m \in {a, b, c} : \A x \in {a, b, c} : x <= m
        lo == CHOOSE m \in {a, b, c} : \A x \in {a, b, c} : x >= m
    IN  a + b + c - hi - lo

\* C8: medianOfThree returns a position holding the middle one of the three
\* values, ties included, and so the pivot partition settles at the returned
\* index is the median of vec[start], vec[mid], vec[end].
C8_ReturnsMedian ==
    /\ fn = "medianOfThree" =>
          vec[ret].key = Median(vec[args[1]].key, vec[args[2]].key, vec[args[3]].key)
    /\ fn = "partition" =>
          LET start == args[1]
              end   == args[2]
              mid   == start + (end - start) \div 2
          IN  vec[ret].key = Median(input[start].key, input[mid].key, input[end].key)

\* C9: partition returns p within start .. end with vec[start .. p-1] <= vec[p]
\* < vec[p+1 .. end], so both ranges quickSortHelper recurses on are shorter
\* than start .. end, and QuickSort returns.
C9_PartitionSplits ==
    /\ fn = "partition" =>
          LET start == args[1]
              end   == args[2]
          IN  /\ ~panic
              /\ start <= ret /\ ret <= end
              /\ \A x \in start .. ret - 1 : vec[x].key <= vec[ret].key
              /\ \A x \in ret + 1 .. end : vec[x].key > vec[ret].key
              /\ (ret - 1) - start < end - start
              /\ end - (ret + 1) < end - start
              /\ Rearranged(input, vec)
              /\ \A x \in DOMAIN vec : (x < start \/ x > end) => vec[x] = input[x]
    /\ fn = "QuickSort" => ~panic

C9_Witness ==
    /\ fn = "partition"
    /\ args[2] - args[1] >= 2
    /\ args[1] < ret /\ ret < args[2]
    /\ \E x \in args[1] .. args[2] : x # ret /\ vec[x].key = vec[ret].key

UintSorts ==
    {"GeneralCountingSort", "IntegerCountingSort", "IntRadixSort", "LessEfficientRadixSort"}

\* C2: each of the four uint sorts returns with vec the ascending permutation
\* of its input, whatever uint values the input holds.
C2_UintSorted ==
    fn \in UintSorts =>
        /\ ~panic
        /\ SameKeys(input, vec)
        /\ Ascending(vec)

IsAscii(v) == \A i \in DOMAIN v : \A p \in DOMAIN v[i].key : v[i].key[p] < 128

\* s is a prefix of t
IsPrefix(s, t) == len(s) <= len(t) /\ \A p \in DOMAIN s : s[p] = t[p]

\* s is at or before t in byte-lexicographic order
LexLeq(s, t) ==
    \/ IsPrefix(s, t)
    \/ \E p \in DOMAIN s \cap DOMAIN t :
          s[p] < t[p] /\ \A q \in 0 .. p - 1 : s[q] = t[q]

\* C3: on ASCII strings StringRadixSort returns with vec a permutation of the
\* input in byte-lexicographic order, a proper prefix before its extensions.
C3_Lexicographic ==
    (fn = "StringRadixSort" /\ IsAscii(input)) =>
        /\ ~panic
        /\ Rearranged(input, vec)
        /\ \A i \in DOMAIN vec, j \in DOMAIN vec :
              i < j => /\ LexLeq(vec[i].key, vec[j].key)
                       /\ ~(IsPrefix(vec[j].key, vec[i].key) /\ vec[j].key # vec[i].key)

C3_Witness ==
    /\ fn = "StringRadixSort"
    /\ IsAscii(input)
    /\ len(input) = MaxStrs
    /\ ~panic
    /\ \E i \in DOMAIN input, j \in DOMAIN input :
          /\ i < j
          /\ IsPrefix(input[j].key, input[i].key)
          /\ len(input[j].key) >= 1
          /\ len(input[j].key) < len(input[i].key)

\* elements of v that bucket puts together stand in the order of their
\* input positions
KeepsBucketsInOrder(v, bucket(_)) ==
    \A i \in DOMAIN v, j \in DOMAIN v :
        (i < j /\ bucket(v[i]) = bucket(v[j])) => v[i].tag < v[j].tag

\* C4: BubbleSort, InsertionSort and MergeSort keep elements of equal key in
\* their input order, and so does each counting pass for the elements of one
\* bucket: GeneralCountingSort by value, radixIntCountSort by the digit
\* (v/exp)%10, radixStringCountSort by the byte bucket.
C4_Stable ==
    /\ fn \in {"BubbleSort", "InsertionSort", "MergeSort", "GeneralCountingSort"} =>
          /\ Rearranged(input, vec)
          /\ KeepsEqualKeysInOrder(vec)
    /\ fn = "radixIntCountSort" =>
          /\ Rearranged(input, vec)
          /\ LET digit(e) == intBucket(e, args[1]) IN KeepsBucketsInOrder(vec, digit)
    /\ fn = "radixStringCountSort" =>
          /\ Rearranged(input, vec)
          /\ LET byte(e) == stringBucket(e.key, args[1]) IN KeepsBucketsInOrder(vec, byte)

C4_Witness ==
    /\ fn = "MergeSort"
    /\ vec # input
    /\ \E i \in DOMAIN input, j \in DOMAIN input :
          /\ i + 1 < j
          /\ input[i].key = input[j].key
          /\ input[i + 1].key < input[i].key

PublicSorts ==
    ComparisonSorts \cup UintSorts \cup {"StringRadixSort", "BucketSort"}

\* C5: each of the thirteen public sorts, called on a slice of length 0 or 1,
\* returns with the slice unchanged and without an index outside the slice.
C5_ShortUnchanged ==
    (fn \in PublicSorts /\ len(input) <= 1) =>
        /\ ~panic
        /\ vec = input

C5_Witness ==
    /\ fn = "HeapSort"
    /\ len(input) = 1
    /\ vec = input

\* C6: BucketSort returns with vec a sorted permutation of any finite input,
\* unchanged when max = min; every value gets a bucket index within
\* 0 .. numBuckets-1 that does not decrease as the value increases.
C6_BucketSorted ==
    fn = "BucketSort" =>
        /\ ~panic
        /\ Rearranged(input, vec)
        /\ Ascending(vec)
        /\ (len(input) >= 1 /\ SliceMin(input) = SliceMax(input)) => vec = input
        /\ (len(input) >= 2 /\ SliceMin(input) < SliceMax(input)) =>
              LET min   == SliceMin(input)
                  max   == SliceMax(input)
                  nb    == FloorDivSqrt(max - min, len(input)) + 1
                  at(i) == bucketIndex(input[i].key, min, max, nb)
              IN  \A i \in DOMAIN input, j \in DOMAIN input :
                      /\ at(i) \in 0 .. nb - 1
                      /\ input[i].key <= input[j].key => at(i) <= at(j)

\* the decimal digits of m: ceil(log10(m+1))
RECURSIVE Digits(_)
Digits(m) == IF m = 0 THEN 0 ELSE 1 + Digits(m \div 10)

\* C7: whatever uint the maximum is, the digit loop of IntRadixSort and of
\* LessEfficientRadixSort ends after one pass per decimal digit of max, the
\* weights of the passes being 1, 10, 100, ... in turn.
C7_OnePassPerDigit ==
    (fn \in {"IntRadixSort", "LessEfficientRadixSort"} /\ len(input) >= 2) =>
        /\ ~panic
        /\ passes = [i \in 1 .. Digits(SliceMax(input)) |-> 10 ^ (i - 1)]

\* the strings of v with a byte within lo .. hi at position curIdx
WithByte(v, curIdx, lo, hi) ==
    {i \in DOMAIN v : curIdx < len(v[i].key) /\ v[i].key[curIdx] \in lo .. hi}

\* C10, as claimed: in a pass, every byte >= 128 at the examined position
\* gets a bucket outside 0 .. 128, an access outside the 129 counts.
C10_HighByteOutOfRange ==
    fn = "radixStringCountSort" =>
        \A i \in WithByte(input, args[1], 128, 255) :
            /\ stringBucket(input[i].key, args[1]) \notin 0 .. 128
            /\ panic

\* C10, amended: in a pass, every byte within 128 .. 254 at the examined
\* position gets a bucket within 129 .. 255, an access outside the 129
\* counts; the byte 255 wraps in the 8-bit sum to bucket 0, the bucket of
\* the strings that end before the position, and is placed there.
C10_HighByteBelow255OutOfRange ==
    fn = "radixStringCountSort" =>
        /\ \A i \in WithByte(input, args[1], 128, 254) :
              /\ stringBucket(input[i].key, args[1]) \in 129 .. 255
              /\ panic
        /\ \A i \in WithByte(input, args[1], 255, 255) :
              stringBucket(input[i].key, args[1]) = 0
        /\ panic => WithByte(input, args[1], 128, 254) # {}
        /\ ~panic =>
              \A i \in WithByte(vec, args[1], 255, 255),
                 j \in WithByte(vec, args[1], 0, 127) : i < j

C10_Witness ==
    /\ fn = "radixStringCountSort"
    /\ ~panic
    /\ \E i \in WithByte(input, args[1], 255, 255),
          j \in WithByte(input, args[1], 0, 127) : j < i
    /\ vec # input

=============================================================================
